---- MODULE Spec2Model ----
(***************************************************************************)
(* Model of the Idena wrongWords / gradeScore scripts:                     *)
(*   flip_gradescore_leaderboard.py  (IdenaApi.get_json, IdenaApi.paged,   *)
(*                                    fetch_wrongwords_bad_authors, main)  *)
(*   find_wrongwords.py              (fetch_flip_cids, main)               *)
(*   findwrongwordshistoric.py       (fetch_flip_cids, scan_epoch, main)   *)
(*                                                                         *)
(* The remote API is the environment: every response is a nondeterministic *)
(* choice among the kinds of answer the HTTP layer can produce.            *)
(***************************************************************************)
EXTENDS Integers, Sequences, FiniteSets, TLC

VARIABLES
  \* IdenaApi.get_json
  gstate,       \* get_json: "idle", "running", "returned", "raised"
  attempt,      \* loop variable of get_json (next attempt to run)
  last_err,     \* local last_err of get_json
  sleeps,       \* arguments of time.sleep inside get_json, in call order
  resps,        \* responses received by the current get_json call, in order
  raisedCause,  \* the cause named by the RuntimeError raised after the loop
  \* the paginators
  script,       \* which program runs: "leaderboard", "find", "historic"
  pc,           \* position of the running program
  token,        \* local token of the paginator (0 is None)
  page,         \* local page of IdenaApi.paged
  cursor,       \* continuationToken carried by the latest list request (0: none)
  reqAfter,     \* number of pages received when the latest list request was built
  listFailed,   \* epochs one of whose list requests was answered by a failure
  served,       \* item kinds the server has sent for this list, in server order
  tokLog,       \* continuation tokens the server has returned, one per page
  yielded,      \* serial numbers of the items IdenaApi.paged has yielded
  cids,         \* local cids of fetch_flip_cids (serial numbers of the flips)
  sent,         \* number of items the server has sent during the run
  nonList,      \* numbers of the pages whose "result" was present but no list
  \* the wrongWords scans
  start_epoch,  \* start_epoch of main in findwrongwordshistoric.py
  ep,           \* epoch being scanned
  off,          \* next value of the loop variable off of that main
  idx,          \* position of the scan loop in cids (next one to fetch)
  counts,       \* dict counts, as its (address, count) items in insertion order
  fetched,      \* answers of the detail requests of this epoch, in fetch order
  errorLines,   \* ERROR lines printed by the scan loop of this epoch
  reports,      \* per-epoch reports emitted (console summary, or CSV and JSONL)
  summary,      \* dict summary of main in findwrongwordshistoric.py
  master,       \* the master summary file wrongwords_summary.csv
  \* main of flip_gradescore_leaderboard.py
  include_zero,   \* args.include_zero
  allowed_status, \* allowed_status: [on |-> FALSE] is None
  bad_authors,    \* set returned by fetch_wrongwords_bad_authors
  badRows,        \* rows of /Authors/Bad yielded so far
  seen,           \* flips yielded by fetch_flips so far, in order
  flips_min,      \* list flips_min
  sums,           \* defaultdict sums, as its items in insertion order
  total_seen,
  total_kept,
  flip_rows,      \* rows of the flip leaderboard
  id_sorted,      \* rows of the identity leaderboard
  written         \* the two CSV files and the meta file were written

getVars == <<gstate, attempt, last_err, sleeps, resps, raisedCause>>

pageVars == <<script, pc, token, page, cursor, reqAfter, listFailed, served,
              tokLog, yielded, cids, sent, nonList>>

scanVars == <<start_epoch, ep, off, idx, counts, fetched, errorLines, reports,
              summary, master>>

lbVars == <<include_zero, allowed_status, bad_authors, badRows, seen, flips_min,
            sums, total_seen, total_kept, flip_rows, id_sorted, written>>

nonGetVars == <<pageVars, scanVars, lbVars>>

vars == <<getVars, pageVars, scanVars, lbVars>>

\* ------------------------------------------------------------------------
\* Values
\* ------------------------------------------------------------------------

\* str.lower() on the addresses of the model.
Lower(a) == IF a = "A" THEN "a" ELSE a

\* Order of the strings of the model under Python's str comparison.
StrOrd(a) ==
  CASE a = "" -> 0
    [] a = "A" -> 1
    [] a = "a" -> 2
    [] a = "b" -> 3

\* A dict is the sequence of its (key, value) items in insertion order.
DictHas(d, k) == \E i \in 1..Len(d) : d[i][1] = k

DictIdx(d, k) == CHOOSE i \in 1..Len(d) : d[i][1] = k

\* d.get(k, dflt)
DictGet(d, k, dflt) == IF DictHas(d, k) THEN d[DictIdx(d, k)][2] ELSE dflt

\* d[k] = v: a new key goes last, an old key keeps its place.
DictPut(d, k, v) ==
  IF DictHas(d, k) THEN [d EXCEPT ![DictIdx(d, k)] = <<k, v>>]
                   ELSE Append(d, <<k, v>>)

DictKeys(d) == {d[i][1] : i \in 1..Len(d)}

\* sorted(s, key=...): before is the set of pairs <<j, i>> of positions of s
\* with key(s[j]) < key(s[i]) (key(s[j]) > key(s[i]) under reverse=True).
\* The sort is stable: elements with equal keys keep their order.
StableSort(s, before) ==
  LET n == Len(s)
      pos(i) == 1 + Cardinality({j \in 1..n :
                      \/ <<j, i>> \in before
                      \/ (<<i, j>> \notin before /\ j < i)})
  IN [p \in 1..n |-> s[CHOOSE i \in 1..n : pos(i) = p]]

\* The pairs of positions of s whose elements are related by a sort key.
PosPairs(s) == (1..Len(s)) \X (1..Len(s))

\* Python floats, scaled down: a float holds an integer with at most
\* MantBits significant bits; an addition rounds its exact result to the
\* nearest such value, ties to the even mantissa (IEEE 754 binary64 does the
\* same with 53 bits).
MantBits == 3

RECURSIVE UlpFrom(_, _)
UlpFrom(n, u) == IF n \div u < 2^MantBits THEN u ELSE UlpFrom(n, 2 * u)

FRound(x) ==
  LET n == IF x < 0 THEN -x ELSE x
      u == UlpFrom(n, 1)
      q == n \div u
      r == n % u
      m == IF 2 * r > u \/ (2 * r = u /\ q % 2 = 1) THEN q + 1 ELSE q
  IN IF x < 0 THEN -(m * u) ELSE m * u

\* a + b on floats
FAdd(a, b) == FRound(a + b)

\* ------------------------------------------------------------------------
\* IdenaApi.get_json                     (flip_gradescore_leaderboard.py)
\* ------------------------------------------------------------------------

\* IdenaApi.__init__ default retries=6; main never overrides it.
Retries == 6

\* IdenaApi.__init__ default backoff_sec=1.5, in tenths of a second.
BackoffSec == 15

\* What one sess.get can produce:
\*   "ok"   : HTTP 200, JSON envelope without error.message
\*   "429"  : HTTP 429
\*   "net"  : sess.get raises (connection error, timeout)
\*   "http" : another HTTP error status; r.raise_for_status() raises
\*   "api"  : HTTP 200, JSON envelope with a non-empty error.message
RespKinds == {"ok", "429", "net", "http", "api"}

\* The exception a response kind makes the try block raise ("None": none).
ExcOf(r) ==
  CASE r = "net" -> "ConnectionError"
    [] r = "http" -> "HTTPError"
    [] r = "api" -> "ApiError"
    [] OTHER -> "None"

SleepFor_const(k) == BackoffSec

\* sleep_s = self.backoff_sec * attempt
SleepFor(k) == BackoffSec * k

\* State of a get_json call on entry (last_err = None, attempt = 1).
GetStart ==
  /\ gstate' = "running"
  /\ attempt' = 1
  /\ last_err' = "None"
  /\ sleeps' = <<>>
  /\ resps' = <<>>
  /\ raisedCause' = "None"

\* One iteration of the for loop whose request is answered by HTTP 429:
\* sleep, continue (last_err is not assigned).
Get429 ==
  /\ gstate = "running"
  /\ attempt <= Retries
  /\ resps' = Append(resps, "429")
  /\ sleeps' = Append(sleeps, SleepFor(attempt))
  /\ attempt' = attempt + 1
  /\ UNCHANGED <<gstate, last_err, raisedCause>>
  /\ UNCHANGED nonGetVars

\* One iteration whose try block raises: sess.get raises, raise_for_status
\* raises, or the RuntimeError for a non-empty error.message is raised.  All
\* are caught by "except Exception": last_err = e, sleep, next iteration.
GetExc(r) ==
  /\ gstate = "running"
  /\ attempt <= Retries
  /\ r \in {"net", "http", "api"}
  /\ resps' = Append(resps, r)
  /\ last_err' = ExcOf(r)
  /\ sleeps' = Append(sleeps, SleepFor(attempt))
  /\ attempt' = attempt + 1
  /\ UNCHANGED <<gstate, raisedCause>>
  /\ UNCHANGED nonGetVars

\* One iteration that reaches "return js".
GetOk ==
  /\ gstate = "running"
  /\ attempt <= Retries
  /\ resps' = Append(resps, "ok")
  /\ gstate' = "returned"
  /\ UNCHANGED <<attempt, last_err, sleeps, raisedCause>>
  /\ UNCHANGED nonGetVars

\* The loop is exhausted: raise RuntimeError(... ({last_err})).
GetExhausted ==
  /\ gstate = "running"
  /\ attempt > Retries
  /\ gstate' = "raised"
  /\ raisedCause' = last_err
  /\ UNCHANGED <<attempt, last_err, sleeps, resps>>
  /\ UNCHANGED nonGetVars

\* ------------------------------------------------------------------------
\* The list endpoints and the paginators
\*   IdenaApi.paged                      (flip_gradescore_leaderboard.py)
\*   fetch_flip_cids       (find_wrongwords.py, findwrongwordshistoric.py)
\* ------------------------------------------------------------------------

\* Bounds of the server: items it sends in a run, pages per list, items per
\* page, and the values it may use as continuation tokens (1..MaxTok).
MaxItems == 3
MaxPages == 3
MaxPageLen == 2
MaxTok == 2

\* An element of a page's "result" list:
\*   "flip"    : a JSON object with a non-empty "cid"
\*   "nocid"   : a JSON object whose "cid" is missing or empty
\*   "nondict" : a JSON value that is not an object
ItemKinds == {"flip", "nocid", "nondict"}

\* The "result" lists one page can carry.
PageContents == UNION {[1..n -> ItemKinds] : n \in 0..MaxPageLen}

\* What the server may answer to the next list request: a page of items and
\* a continuation token (0: none, the last page).
ServerPage(items, tok) ==
  /\ items \in PageContents
  /\ sent + Len(items) <= MaxItems
  /\ tok \in 0..MaxTok
  /\ (Len(tokLog) + 1 >= MaxPages => tok = 0)

\* Serial numbers (position in server order) of the items of a page that
\* are of a kind in keep, the page starting after `base` items.
Kept(items, base, keep) ==
  SelectSeq([i \in 1..Len(items) |-> base + i],
            LAMBDA n : items[n - base] \in keep)

\* isinstance(it, dict)
IsDict(k) == k # "nondict"

\* flt.get("cid") is truthy
HasCid(k) == k = "flip"

\* The kinds of item IdenaApi.paged yields, and those fetch_flip_cids keeps.
DictKinds == {k \in ItemKinds : IsDict(k)}
CidKinds == {k \in ItemKinds : HasCid(k)}

NextCursor_first(tok) == IF tokLog = <<>> THEN tok ELSE tokLog[1]

\* token = js.get("continuationToken"); the next request carries it
NextCursor(tok) == tok

\* IdenaApi.paged, top of the while loop: page += 1, build params (the
\* continuationToken only if token is set) and enter get_json.
PagedCall ==
  /\ script = "paged"
  /\ pc = "paged_top"
  /\ page' = page + 1
  /\ cursor' = token
  /\ reqAfter' = Len(tokLog)
  /\ GetStart
  /\ pc' = "paged_get"
  /\ UNCHANGED <<script, token, listFailed, served, tokLog, yielded, cids, sent,
                 nonList>>
  /\ UNCHANGED <<scanVars, lbVars>>

\* get_json returned the page: yield its dict items, read the token, leave
\* the loop when there is none.
PagedPage ==
  /\ script = "paged"
  /\ pc = "paged_get"
  /\ gstate = "returned"
  /\ \E items \in PageContents, tok \in 0..MaxTok :
       /\ ServerPage(items, tok)
       /\ served' = served \o items
       /\ sent' = sent + Len(items)
       /\ tokLog' = Append(tokLog, tok)
       /\ yielded' = yielded \o Kept(items, Len(served), DictKinds)
       /\ token' = NextCursor(tok)
       /\ pc' = IF NextCursor(tok) = 0 THEN "paged_done" ELSE "paged_top"
  /\ gstate' = "idle"
  /\ UNCHANGED <<attempt, last_err, sleeps, resps, raisedCause>>
  /\ UNCHANGED <<script, page, cursor, reqAfter, listFailed, cids, nonList>>
  /\ UNCHANGED <<scanVars, lbVars>>

\* Values of "result" that are present and not a list: an object, a number
\* or a string, empty ({}, 0, "") or not.
NonListResults ==
  {"object", "number", "string", "emptyObject", "zero", "emptyString"}

\* bool(v): empty objects, zero and the empty string are falsy.
Truthy(v) == v \in {"object", "number", "string"}

\* items = js.get("result") or []: a falsy result is replaced by [].
ItemsOf(v) == IF Truthy(v) THEN v ELSE "list"

\* get_json returned an envelope whose "result" is the non-list value v:
\* "or []" first; then a value that is still no list raises RuntimeError
\* (outside get_json, so nothing retries it), and [] is an empty page whose
\* token is read as usual.
PagedNonList(v) ==
  /\ script = "paged"
  /\ pc = "paged_get"
  /\ gstate = "returned"
  /\ v \in NonListResults
  /\ nonList' = nonList \cup {page}
  /\ IF ItemsOf(v) # "list"
       THEN /\ pc' = "paged_raised"
            /\ UNCHANGED <<token, tokLog>>
       ELSE \E tok \in 0..MaxTok :
              /\ ServerPage(<<>>, tok)
              /\ tokLog' = Append(tokLog, tok)
              /\ token' = NextCursor(tok)
              /\ pc' = IF NextCursor(tok) = 0 THEN "paged_done" ELSE "paged_top"
  /\ gstate' = "idle"
  /\ UNCHANGED <<attempt, last_err, sleeps, resps, raisedCause>>
  /\ UNCHANGED <<script, page, cursor, reqAfter, listFailed, served, yielded,
                 cids, sent>>
  /\ UNCHANGED <<scanVars, lbVars>>

\* get_json raised: the RuntimeError leaves the generator.
PagedRaise ==
  /\ script = "paged"
  /\ pc = "paged_get"
  /\ gstate = "raised"
  /\ pc' = "paged_raised"
  /\ UNCHANGED <<getVars, scanVars, lbVars>>
  /\ UNCHANGED <<script, token, page, cursor, reqAfter, listFailed, served,
                 tokLog, yielded, cids, sent, nonList>>

\* What one requests.get of a list page can produce in the wrongWords
\* scripts:
\*   "ok"       : HTTP 200, envelope with a result list
\*   "net"      : requests.get raises
\*   "httpHtml" : HTTP error status, body is not JSON
\*   "httpJson" : HTTP error status, body is a JSON error envelope
\*   "apierr"   : HTTP 200, JSON error envelope (no result, no token)
ListRespKinds == {"ok", "net", "httpHtml", "httpJson", "apierr"}

\* How fetch_flip_cids takes a response: "page" (items and token are read),
\* "empty" (the envelope has no result and no token: nothing is added and
\* the loop ends), "raise" (an exception leaves the function).
\* find_wrongwords.py calls r.raise_for_status(); findwrongwordshistoric.py
\* does not and parses whatever body it got.
ListOutcome(sc, r) ==
  CASE r = "ok" -> "page"
    [] r = "net" -> "raise"
    [] r = "httpHtml" -> "raise"
    [] r = "httpJson" -> IF sc = "find" THEN "raise" ELSE "empty"
    [] r = "apierr" -> "empty"

\* fetch_flip_cids, one iteration of the while loop answered by a page.
\* A non-object item makes flt.get raise; the exception leaves the function
\* and the program.
CidsPage ==
  /\ script \in {"find", "historic"}
  /\ pc = "cids_loop"
  /\ cursor' = token
  /\ reqAfter' = Len(tokLog)
  /\ \E items \in PageContents, tok \in 0..MaxTok :
       /\ ServerPage(items, tok)
       /\ served' = served \o items
       /\ sent' = sent + Len(items)
       /\ tokLog' = Append(tokLog, tok)
       /\ IF \E i \in 1..Len(items) : items[i] = "nondict"
            THEN /\ pc' = "crashed"
                 /\ UNCHANGED <<cids, token>>
            ELSE /\ cids' = cids \o Kept(items, Len(served), CidKinds)
                 /\ token' = NextCursor(tok)
                 /\ pc' = IF NextCursor(tok) = 0 THEN "cids_returned"
                                                 ELSE "cids_loop"
  /\ UNCHANGED <<getVars, scanVars, lbVars>>
  /\ UNCHANGED <<script, page, listFailed, yielded, nonList>>

\* fetch_flip_cids, one iteration answered by a failure.
CidsFail(r) ==
  /\ script \in {"find", "historic"}
  /\ pc = "cids_loop"
  /\ r \in ListRespKinds \ {"ok"}
  /\ cursor' = token
  /\ reqAfter' = Len(tokLog)
  /\ listFailed' = listFailed \cup {ep}
  /\ IF ListOutcome(script, r) = "raise"
       THEN /\ pc' = "crashed"
            /\ UNCHANGED token
       ELSE /\ token' = 0
            /\ pc' = "cids_returned"
  /\ UNCHANGED <<getVars, scanVars, lbVars>>
  /\ UNCHANGED <<script, page, served, tokLog, yielded, cids, sent, nonList>>

\* ------------------------------------------------------------------------
\* The wrongWords scans
\*   main                                            (find_wrongwords.py)
\*   latest_epoch, scan_epoch, main         (findwrongwordshistoric.py)
\* ------------------------------------------------------------------------

\* EPOCHS_BACK of findwrongwordshistoric.py
EpochsBack == 50

\* Largest epoch number /Epoch/Last may report.
MaxLatest == 2

\* What one GET /Flip/{cid} can produce:
\*   "ok"   : a JSON envelope; author and wrong are the author and wrongWords
\*            of its result (author "" also stands for an envelope without
\*            result or without author)
\*   "fail" : requests.get or .json() raises
DetailAnswers ==
  {[kind |-> "ok", author |-> a, wrong |-> w] :
      a \in {"", "A", "b"}, w \in BOOLEAN}
  \cup {[kind |-> "fail", author |-> "", wrong |-> FALSE]}

ScanStep_any(sc, c, o) ==
  IF Lower(o.author) # ""
    THEN DictPut(c, Lower(o.author), DictGet(c, Lower(o.author), 0) + 1)
    ELSE c

\* The try block of the scan loop, on the dict counts.
\*   find_wrongwords.py:        if author: counts[author] =
\*                                  counts.get(author, 0) + (1 if wrong else 0)
\*   findwrongwordshistoric.py: if wrongWords: if addr: counts[addr] =
\*                                  counts.get(addr, 0) + 1
\* An exception leaves counts as it is.
ScanStep(sc, c, o) ==
  LET author == Lower(o.author)
  IN IF o.kind # "ok" \/ author = "" THEN c
     ELSE IF sc = "find"
       THEN DictPut(c, author, DictGet(c, author, 0) + (IF o.wrong THEN 1 ELSE 0))
     ELSE IF o.wrong
       THEN DictPut(c, author, DictGet(c, author, 0) + 1)
     ELSE c

\* key=lambda x: -x[1]
CountBefore(x, y) == -x[2] < -y[2]

\* sorted(counts.items(), key=lambda x: -x[1])
SortCounts(c) ==
  StableSort(c, {q \in PosPairs(c) : CountBefore(c[q[1]], c[q[2]])})

\* The rows of wrongwords_summary.csv: for ep, m in summary.items(): for
\* addr, cnt in m.items().
RECURSIVE MasterRows(_)
MasterRows(sm) ==
  IF sm = <<>> THEN <<>>
  ELSE LET e == Head(sm)[1]
           m == Head(sm)[2]
       IN [i \in 1..Len(m) |-> <<e, m[i][1], m[i][2]>>] \o MasterRows(Tail(sm))

\* find_wrongwords.py main: "if not cids: ... return".
FindNoFlips ==
  /\ script = "find"
  /\ pc = "cids_returned"
  /\ cids = <<>>
  /\ pc' = "done_noflips"
  /\ UNCHANGED <<getVars, scanVars, lbVars>>
  /\ UNCHANGED <<script, token, page, cursor, reqAfter, listFailed, served,
                 tokLog, yielded, cids, sent, nonList>>

\* fetch_flip_cids has returned (its locals are gone); counts = {} and the
\* scan loop starts.
ScanBegin ==
  /\ script \in {"find", "historic"}
  /\ pc = "cids_returned"
  /\ script = "find" => cids # <<>>
  /\ pc' = "scan"
  /\ token' = 0
  /\ cursor' = 0
  /\ reqAfter' = 0
  /\ served' = <<>>
  /\ tokLog' = <<>>
  /\ counts' = <<>>
  /\ idx' = 1
  /\ fetched' = <<>>
  /\ errorLines' = 0
  /\ UNCHANGED <<getVars, lbVars>>
  /\ UNCHANGED <<script, page, listFailed, yielded, cids, sent, nonList>>
  /\ UNCHANGED <<start_epoch, ep, off, reports, summary, master>>

\* One iteration of the scan loop: the detail request, the try block, the
\* except handler that prints one ERROR line.
ScanFlip(o) ==
  /\ script \in {"find", "historic"}
  /\ pc = "scan"
  /\ idx <= Len(cids)
  /\ o \in DetailAnswers
  /\ fetched' = Append(fetched, o)
  /\ counts' = ScanStep(script, counts, o)
  /\ errorLines' = IF o.kind = "fail" THEN errorLines + 1 ELSE errorLines
  /\ idx' = idx + 1
  /\ UNCHANGED <<getVars, pageVars, lbVars>>
  /\ UNCHANGED <<start_epoch, ep, off, reports, summary, master>>

\* find_wrongwords.py main after the loop: the console summary.
FindSummary ==
  /\ script = "find"
  /\ pc = "scan"
  /\ idx > Len(cids)
  /\ reports' = Append(reports,
       [epoch |-> ep, rows |-> SortCounts(counts), items |-> counts])
  /\ pc' = "done"
  /\ UNCHANGED <<getVars, lbVars>>
  /\ UNCHANGED <<script, token, page, cursor, reqAfter, listFailed, served,
                 tokLog, yielded, cids, sent, nonList>>
  /\ UNCHANGED <<start_epoch, ep, off, idx, counts, fetched, errorLines,
                 summary, master>>

\* findwrongwordshistoric.py main: start_epoch = latest_epoch() - 1.
HistLatest ==
  /\ script = "historic"
  /\ pc = "hist_start"
  /\ \E n \in 0..MaxLatest : start_epoch' = n - 1
  /\ off' = 0
  /\ pc' = "hist_loop"
  /\ UNCHANGED <<getVars, lbVars>>
  /\ UNCHANGED <<script, token, page, cursor, reqAfter, listFailed, served,
                 tokLog, yielded, cids, sent, nonList>>
  /\ UNCHANGED <<ep, idx, counts, fetched, errorLines, reports, summary,
                 master>>

\* latest_epoch() raises (request failure, body without result.epoch).
HistLatestFail ==
  /\ script = "historic"
  /\ pc = "hist_start"
  /\ pc' = "crashed"
  /\ UNCHANGED <<getVars, scanVars, lbVars>>
  /\ UNCHANGED <<script, token, page, cursor, reqAfter, listFailed, served,
                 tokLog, yielded, cids, sent, nonList>>

\* scan_epoch after the loop: the CSV (sorted) and the JSONL (dict order) are
\* written and counts is returned; main stores it in summary[ep].
HistEpochEnd ==
  /\ script = "historic"
  /\ pc = "scan"
  /\ idx > Len(cids)
  /\ reports' = Append(reports,
       [epoch |-> ep, rows |-> SortCounts(counts), items |-> counts])
  /\ summary' = DictPut(summary, ep, counts)
  /\ pc' = "hist_loop"
  /\ UNCHANGED <<getVars, lbVars>>
  /\ UNCHANGED <<script, token, page, cursor, reqAfter, listFailed, served,
                 tokLog, yielded, cids, sent, nonList>>
  /\ UNCHANGED <<start_epoch, ep, off, idx, counts, fetched, errorLines,
                 master>>

\* main, the for loop over off: the next epoch is scanned (a new call of
\* scan_epoch, whose locals start afresh, enters fetch_flip_cids: cids,
\* token = [], None), or the loop ends (range exhausted or ep < 0) and the
\* master CSV is written.
HistLoop ==
  /\ script = "historic"
  /\ pc = "hist_loop"
  /\ IF off < EpochsBack /\ start_epoch - off >= 0
       THEN /\ ep' = start_epoch - off
            /\ off' = off + 1
            /\ cids' = <<>>
            /\ token' = 0
            /\ idx' = 1
            /\ counts' = <<>>
            /\ fetched' = <<>>
            /\ errorLines' = 0
            /\ pc' = "cids_loop"
            /\ UNCHANGED master
       ELSE /\ master' = [written |-> TRUE, rows |-> MasterRows(summary)]
            /\ pc' = "done"
            /\ UNCHANGED <<ep, off, cids, token, idx, counts, fetched,
                           errorLines>>
  /\ UNCHANGED <<getVars, lbVars>>
  /\ UNCHANGED <<script, page, cursor, reqAfter, listFailed, served, tokLog,
                 yielded, sent, nonList>>
  /\ UNCHANGED <<start_epoch, reports, summary>>

\* ------------------------------------------------------------------------
\* main and fetch_wrongwords_bad_authors  (flip_gradescore_leaderboard.py)
\*
\* api.paged is a generator: main consumes the rows and the flips one at a
\* time as they are yielded; a RuntimeError raised by paged (get_json out of
\* retries, result of the wrong type) leaves main.
\* ------------------------------------------------------------------------

\* Rows of /Authors/Bad and flips of /Flips the server may send in a run.
MaxBadRows == 1
MaxFlips == 3

\* The largest score of the model: adding 1.0 to it has to be rounded.
BigScore == 2^MantBits

\* A row of /Epoch/{epoch}/Authors/Bad (address "" also stands for a
\* missing or null address).
BadRowShapes ==
  {[address |-> "A", reason |-> "WrongWords", wrongWords |-> FALSE],
   [address |-> "b", reason |-> "NoQualifiedFlips", wrongWords |-> TRUE],
   [address |-> "b", reason |-> "NoQualifiedFlips", wrongWords |-> FALSE],
   [address |-> "", reason |-> "WrongWords", wrongWords |-> TRUE]}

\* JSON values of the gradeScore field.
Num(v) == [k |-> "num", v |-> v]
NoneScore == [k |-> "none", v |-> 0]
TextScore == [k |-> "text", v |-> 0]

\* A flip of /Epoch/{epoch}/Flips without its cid (author "" also stands
\* for a missing or null author).
FlipShapes ==
  {[author |-> "A", gradeScore |-> g, status |-> "Qualified", hasCid |-> TRUE] :
      g \in {Num(-1), NoneScore, Num(1), Num(BigScore)}}
  \cup
  {[author |-> "b", gradeScore |-> g, status |-> "Qualified", hasCid |-> TRUE] :
      g \in {TextScore, Num(1)}}
  \cup
  {[author |-> "", gradeScore |-> Num(1), status |-> "Qualified", hasCid |-> TRUE],
   [author |-> "A", gradeScore |-> Num(1), status |-> "Reported", hasCid |-> TRUE],
   [author |-> "A", gradeScore |-> Num(1), status |-> "Qualified", hasCid |-> FALSE]}

\* The n-th flip the server sends: cids are unique, 0 is the empty cid.
FlipOf(sh, n) ==
  [author |-> sh.author, gradeScore |-> sh.gradeScore, status |-> sh.status,
   cid |-> IF sh.hasCid THEN n ELSE 0]

\* _safe_float: None and values float() rejects become 0.0
SafeFloat(g) == IF g.k = "num" THEN g.v ELSE 0

Qualifies_reasonOnly(row) == row.reason = "WrongWords"

\* reason == "WrongWords" or wrong_words_flag is True
Qualifies(row) == row.reason = "WrongWords" \/ row.wrongWords = TRUE

\* The loop body of fetch_wrongwords_bad_authors on the set bad.
BadAdd(bad, row) ==
  LET addr == Lower(row.address)
  IN IF addr # "" /\ Qualifies(row) THEN bad \cup {addr} ELSE bad

\* The filters of the main loop: a flip is kept iff none of the four
\* "continue" statements is reached.
LbKeep(fl) ==
  LET author == Lower(fl.author)
  IN /\ ~(author = "" \/ author \in bad_authors)
     /\ ~(allowed_status.on /\ fl.status \notin allowed_status.names)
     /\ ~(~include_zero /\ SafeFloat(fl.gradeScore) <= 0)
     /\ ~(fl.cid = 0)

\* The dict kept (the fields that do not enter any computation are left
\* out: grade, the vote and response counts, withPrivatePart, the words).
KeptOf(fl) ==
  [cid |-> fl.cid, author |-> Lower(fl.author),
   gradeScore |-> SafeFloat(fl.gradeScore), status |-> fl.status]

\* defaultdict(lambda: {"total": 0.0, "count": 0, "max": 0.0})
SumsDefault == [total |-> 0, count |-> 0, max |-> 0]

SumsFold_lastmax(s, author, g) ==
  LET cur == DictGet(s, author, SumsDefault)
  IN DictPut(s, author,
       [total |-> FAdd(cur.total, g), count |-> cur.count + 1, max |-> g])

SumsFold_nocount(s, author, g) ==
  LET cur == DictGet(s, author, SumsDefault)
  IN DictPut(s, author,
       [total |-> FAdd(cur.total, g), count |-> 1,
        max |-> IF g > cur.max THEN g ELSE cur.max])

\* sums[author]["total"] += grade_score; ["count"] += 1; max update
SumsFold(s, author, g) ==
  LET cur == DictGet(s, author, SumsDefault)
  IN DictPut(s, author,
       [total |-> FAdd(cur.total, g), count |-> cur.count + 1,
        max |-> IF g > cur.max THEN g ELSE cur.max])

\* The main loop body on sums: a kept flip is folded in, a filtered one
\* changes nothing.
LbStep(s, fl) ==
  IF LbKeep(fl) THEN SumsFold(s, Lower(fl.author), SafeFloat(fl.gradeScore))
                ELSE s

FlipBefore_scoreOnly(x, y) == x.gradeScore > y.gradeScore

\* key=lambda x: (x["gradeScore"], x["cid"]), reverse=True
FlipBefore(x, y) ==
  \/ x.gradeScore > y.gradeScore
  \/ (x.gradeScore = y.gradeScore /\ x.cid > y.cid)

\* key=lambda x: (x["totalGradeScore"], x["flipCount"], x["address"]),
\* reverse=True
IdBefore(x, y) ==
  \/ x.totalGradeScore > y.totalGradeScore
  \/ /\ x.totalGradeScore = y.totalGradeScore
     /\ \/ x.flipCount > y.flipCount
        \/ (x.flipCount = y.flipCount /\ StrOrd(x.address) > StrOrd(y.address))

\* flip_rows: flips_sorted with rank = position
FlipRows(fm) ==
  LET srt == StableSort(fm, {q \in PosPairs(fm) : FlipBefore(fm[q[1]], fm[q[2]])})
  IN [i \in 1..Len(srt) |->
        [rank |-> i, cid |-> srt[i].cid, author |-> srt[i].author,
         grade_score |-> srt[i].gradeScore, status |-> srt[i].status]]

\* id_rows: avgGradeScore is total / count if count else 0.0; the quotient
\* n / d is kept as the pair <<n, d>> (0.0 as <<0, 1>>).
IdRows(s) ==
  [i \in 1..Len(s) |->
     [address |-> s[i][1], totalGradeScore |-> s[i][2].total,
      flipCount |-> s[i][2].count,
      avgGradeScore |-> IF s[i][2].count # 0
                          THEN <<s[i][2].total, s[i][2].count>>
                          ELSE <<0, 1>>,
      maxFlipGradeScore |-> s[i][2].max]]

\* One row yielded to the loop of fetch_wrongwords_bad_authors.
LbBadRow(row) ==
  /\ script = "leaderboard"
  /\ pc = "lb_bad"
  /\ row \in BadRowShapes
  /\ Cardinality(badRows \cup {row}) <= MaxBadRows
  /\ badRows' = badRows \cup {row}
  /\ bad_authors' = BadAdd(bad_authors, row)
  /\ UNCHANGED <<getVars, pageVars, scanVars>>
  /\ UNCHANGED <<include_zero, allowed_status, seen, flips_min, sums, total_seen,
                 total_kept, flip_rows, id_sorted, written>>

\* The bad-author list is exhausted: return bad; main goes on to the flips.
LbBadDone ==
  /\ script = "leaderboard"
  /\ pc = "lb_bad"
  /\ pc' = "lb_flips"
  /\ UNCHANGED <<getVars, scanVars, lbVars>>
  /\ UNCHANGED <<script, token, page, cursor, reqAfter, listFailed, served,
                 tokLog, yielded, cids, sent, nonList>>

\* api.paged raises while the bad authors or the flips are read: main is
\* left before anything is written.
LbFail ==
  /\ script = "leaderboard"
  /\ pc \in {"lb_bad", "lb_flips"}
  /\ listFailed' = listFailed \cup {ep}
  /\ pc' = "crashed"
  /\ UNCHANGED <<getVars, scanVars, lbVars>>
  /\ UNCHANGED <<script, token, page, cursor, reqAfter, served, tokLog, yielded,
                 cids, sent, nonList>>

\* One iteration of "for fl in fetch_flips(...)".
LbFlip(sh) ==
  /\ script = "leaderboard"
  /\ pc = "lb_flips"
  /\ sh \in FlipShapes
  /\ total_seen < MaxFlips
  /\ LET fl == FlipOf(sh, total_seen + 1)
     IN /\ seen' = Append(seen, fl)
        /\ total_seen' = total_seen + 1
        /\ sums' = LbStep(sums, fl)
        /\ IF LbKeep(fl)
             THEN /\ flips_min' = Append(flips_min, KeptOf(fl))
                  /\ total_kept' = total_kept + 1
             ELSE UNCHANGED <<flips_min, total_kept>>
  /\ UNCHANGED <<getVars, pageVars, scanVars>>
  /\ UNCHANGED <<include_zero, allowed_status, bad_authors, badRows, flip_rows,
                 id_sorted, written>>

\* The flips are exhausted: both leaderboards are sorted and the CSV and
\* meta files are written.
LbFinish ==
  /\ script = "leaderboard"
  /\ pc = "lb_flips"
  /\ flip_rows' = FlipRows(flips_min)
  /\ id_sorted' = LET ir == IdRows(sums)
                  IN StableSort(ir, {q \in PosPairs(ir) : IdBefore(ir[q[1]], ir[q[2]])})
  /\ written' = TRUE
  /\ pc' = "lb_done"
  /\ UNCHANGED <<getVars, scanVars>>
  /\ UNCHANGED <<script, token, page, cursor, reqAfter, listFailed, served,
                 tokLog, yielded, cids, sent, nonList>>
  /\ UNCHANGED <<include_zero, allowed_status, bad_authors, badRows, seen,
                 flips_min, sums, total_seen, total_kept>>

\* ------------------------------------------------------------------------
\* Specifications
\* ------------------------------------------------------------------------

GetIdle ==
  /\ gstate = "idle"
  /\ attempt = 1
  /\ last_err = "None"
  /\ sleeps = <<>>
  /\ resps = <<>>
  /\ raisedCause = "None"

PageIdle ==
  /\ token = 0
  /\ page = 0
  /\ cursor = 0
  /\ reqAfter = 0
  /\ listFailed = {}
  /\ served = <<>>
  /\ tokLog = <<>>
  /\ yielded = <<>>
  /\ cids = <<>>
  /\ sent = 0
  /\ nonList = {}

ScanIdle ==
  /\ start_epoch = 0
  /\ ep = 0
  /\ off = 0
  /\ idx = 1
  /\ counts = <<>>
  /\ fetched = <<>>
  /\ errorLines = 0
  /\ reports = <<>>
  /\ summary = <<>>
  /\ master = [written |-> FALSE, rows |-> <<>>]

LbIdle ==
  /\ bad_authors = {}
  /\ badRows = {}
  /\ seen = <<>>
  /\ flips_min = <<>>
  /\ sums = <<>>
  /\ total_seen = 0
  /\ total_kept = 0
  /\ flip_rows = <<>>
  /\ id_sorted = <<>>
  /\ written = FALSE

NoArgs ==
  /\ include_zero = FALSE
  /\ allowed_status = [on |-> FALSE, names |-> {}]

\* A single get_json call against an arbitrary server.
InitGet ==
  /\ script = "get_json"
  /\ pc = "idle"
  /\ PageIdle /\ ScanIdle /\ LbIdle /\ NoArgs
  /\ gstate = "running"
  /\ attempt = 1
  /\ last_err = "None"
  /\ sleeps = <<>>
  /\ resps = <<>>
  /\ raisedCause = "None"

NextGet ==
  \/ Get429
  \/ \E r \in {"net", "http", "api"} : GetExc(r)
  \/ GetOk
  \/ GetExhausted

SpecGet == InitGet /\ [][NextGet]_vars

\* The interpreter runs the loop to its end: a call in progress takes its
\* next step.
FairSpecGet == SpecGet /\ WF_vars(NextGet)

\* A paginator run: IdenaApi.paged, or fetch_flip_cids of either script.
InitPaged ==
  /\ script \in {"paged", "find", "historic"}
  /\ pc = IF script = "paged" THEN "paged_top" ELSE "cids_loop"
  /\ GetIdle /\ PageIdle /\ ScanIdle /\ LbIdle /\ NoArgs

NextPaged ==
  \/ PagedCall
  \/ GetExc("net")
  \/ GetOk
  \/ GetExhausted
  \/ PagedPage
  \/ \E v \in NonListResults : PagedNonList(v)
  \/ PagedRaise
  \/ CidsPage
  \/ \E r \in ListRespKinds \ {"ok"} : CidsFail(r)

SpecPaged == InitPaged /\ [][NextPaged]_vars

\* A run of one of the three programs.
Init ==
  /\ script \in {"find", "historic", "leaderboard"}
  /\ pc = CASE script = "find" -> "cids_loop"
            [] script = "historic" -> "hist_start"
            [] script = "leaderboard" -> "lb_bad"
  /\ GetIdle /\ PageIdle /\ ScanIdle /\ LbIdle
  /\ IF script = "leaderboard"
       THEN /\ include_zero \in BOOLEAN
            /\ allowed_status \in {[on |-> FALSE, names |-> {}],
                                   [on |-> TRUE, names |-> {"Qualified"}]}
       ELSE NoArgs

Next ==
  \/ CidsPage
  \/ \E r \in ListRespKinds \ {"ok"} : CidsFail(r)
  \/ FindNoFlips
  \/ ScanBegin
  \/ \E o \in DetailAnswers : ScanFlip(o)
  \/ FindSummary
  \/ HistLatest
  \/ HistLatestFail
  \/ HistEpochEnd
  \/ HistLoop
  \/ \E row \in BadRowShapes : LbBadRow(row)
  \/ LbBadDone
  \/ LbFail
  \/ \E sh \in FlipShapes : LbFlip(sh)
  \/ LbFinish

Spec == Init /\ [][Next]_vars

\* ---- Claims about IdenaApi.get_json ------------------------------------

\* The failed attempts the specification calls transient.
Transient == {"429", "net"}

\* The underlying cause of a transiently failed attempt.
CauseOf(r) == IF r = "429" THEN "HTTP429" ELSE ExcOf(r)

\* C1: a response whose envelope carries a non-empty error.message ends the
\* call there: it is the last request of the call and no backoff sleep
\* follows it.
C1_ApiErrorIsFatal ==
  \A i \in 1..Len(resps) :
    resps[i] = "api" => (i = Len(resps) /\ Len(sleeps) < i)

\* C2: when every attempt of a call failed transiently (HTTP 429 or network
\* failure, in any mix), the error raised names the cause of the last failed
\* attempt.
C2_RaisedWrapsLastCause ==
  (gstate = "raised" /\ \A i \in 1..Len(resps) : resps[i] \in Transient)
    => raisedCause = CauseOf(resps[Len(resps)])

\* C10: a call issues at most Retries requests, sleeps exactly
\* backoff_sec * k after the k-th attempt failed transiently, and always
\* ends by returning or raising.
C10_BoundedLinearBackoff ==
  /\ [](/\ Len(resps) <= Retries
        /\ \A k \in 1..Len(resps) :
             resps[k] \in Transient =>
               (k <= Len(sleeps) /\ sleeps[k] = BackoffSec * k))
  /\ <>(gstate \in {"returned", "raised"})

\* A call whose first two attempts failed transiently (429, then a network
\* failure) and whose third attempt returned.
C10_Witness ==
  /\ gstate = "returned"
  /\ Len(resps) = 3
  /\ resps[1] = "429"
  /\ resps[2] = "net"
  /\ sleeps = <<BackoffSec, 2 * BackoffSec>>

\* ---- Claims about the paginators ---------------------------------------

\* The token returned by the n-th page (none before the first page).
PrevTok(n) == IF n = 0 THEN 0 ELSE tokLog[n]

\* The serial numbers 1..n in order.
Serials(n) == [i \in 1..n |-> i]

\* The serial numbers of the served items of a kind in keep, in order.
ServedKept(keep) == Kept(served, 0, keep)

\* Every list request carries the token of the page before it (none for
\* the first), and none is issued after a page without a token.
CursorProtocol ==
  /\ cursor = PrevTok(reqAfter)
  /\ (reqAfter >= 1 => tokLog[reqAfter] # 0)

\* C3 as stated: the cursor protocol holds and, against a server that
\* answers every list request with a page, the paginator yields every item
\* the server sent, in server order.
C3_YieldsEveryItem ==
  /\ CursorProtocol
  /\ (pc = "paged_done" => yielded = Serials(Len(served)))
  /\ ((pc = "cids_returned" /\ ep \notin listFailed) => cids = Serials(Len(served)))

\* C3, amended: the cursor protocol holds and the paginator yields, in
\* server order, exactly the items that are JSON objects (IdenaApi.paged) or
\* the cid of exactly the items that carry a non-empty cid (fetch_flip_cids,
\* which returns only if every item was an object).
C3_YieldsKeptItems ==
  /\ CursorProtocol
  /\ (pc = "paged_done" =>
        /\ tokLog # <<>> /\ tokLog[Len(tokLog)] = 0
        /\ yielded = ServedKept({"flip", "nocid"}))
  /\ ((pc = "cids_returned" /\ ep \notin listFailed) =>
        /\ tokLog # <<>> /\ tokLog[Len(tokLog)] = 0
        /\ \A i \in 1..Len(served) : served[i] # "nondict"
        /\ cids = ServedKept({"flip"}))

\* IdenaApi.paged ran over three pages with different tokens, one request
\* was retried, and an item that is not an object was left out.
C3_Witness ==
  /\ pc = "paged_done"
  /\ Len(tokLog) = 3
  /\ tokLog[1] # tokLog[2]
  /\ Len(served) = 3
  /\ Len(yielded) = 2
  /\ Len(resps) > 1

\* C11: whenever a page of IdenaApi.paged carried a "result" that is present
\* and not a list, pagination has failed with the schema error: that page
\* was the last one requested and the generator was left by the exception.
C11_NonListResultIsFatal ==
  \A p \in nonList : pc = "paged_raised" /\ page = p

\* ---- Helpers of the claims about the scans and the leaderboards --------

\* The lowercase addresses of the model.
Addrs == {"a", "b"}

\* The permutations of 1..n, for every length a run can reach, and a
\* sequence reordered by one.
PermTable ==
  [n \in 0..(IF MaxItems > MaxFlips THEN MaxItems ELSE MaxFlips) |->
     {f \in [1..n -> 1..n] : \A i, j \in 1..n : f[i] = f[j] => i = j}]

Perms(n) == PermTable[n]

Permute(s, f) == [i \in 1..Len(s) |-> s[f[i]]]

\* Number of detail fetches so far that raised.
FailedFetches == Cardinality({i \in 1..Len(fetched) : fetched[i].kind = "fail"})

\* Number of detail fetches so far that answered a wrongWords flip of `a`.
WrongFetched(a) ==
  Cardinality({i \in 1..Len(fetched) :
                 /\ fetched[i].kind = "ok"
                 /\ Lower(fetched[i].author) = a
                 /\ fetched[i].wrong})

\* Two dicts hold the same keys with the same values.
SameMap(d1, d2) ==
  /\ DictKeys(d1) = DictKeys(d2)
  /\ \A k \in DictKeys(d1) : DictGet(d1, k, 0) = DictGet(d2, k, 0)

\* The scan loop run over a sequence of detail answers.
RECURSIVE FoldCounts(_, _, _)
FoldCounts(sc, c, seq) ==
  IF seq = <<>> THEN c
  ELSE FoldCounts(sc, ScanStep(sc, c, Head(seq)), Tail(seq))

\* The main loop of the leaderboard run over a sequence of flips.
RECURSIVE FoldSums(_, _)
FoldSums(s, seq) ==
  IF seq = <<>> THEN s ELSE FoldSums(LbStep(s, Head(seq)), Tail(seq))

\* Float sum of a sequence of scores, left to right from 0.0.
RECURSIVE FloatSum(_)
FloatSum(g) ==
  IF g = <<>> THEN 0 ELSE FAdd(FloatSum(SubSeq(g, 1, Len(g) - 1)), g[Len(g)])

\* Exact sum of a sequence of scores.
RECURSIVE ExactSum(_)
ExactSum(g) == IF g = <<>> THEN 0 ELSE Head(g) + ExactSum(Tail(g))

\* No addition of the left-to-right sum has to round.
NoRounding(g) ==
  \A k \in 1..Len(g) :
    FRound(ExactSum(SubSeq(g, 1, k))) = ExactSum(SubSeq(g, 1, k))

\* A flip is filtered out, in the words of C5: empty author, bad author,
\* status filter, non-positive score without --include-zero, empty cid.
FilteredOut(fl) ==
  \/ fl.author = ""
  \/ Lower(fl.author) \in bad_authors
  \/ (allowed_status.on /\ fl.status \notin allowed_status.names)
  \/ (~include_zero /\ (fl.gradeScore.k # "num" \/ fl.gradeScore.v <= 0))
  \/ fl.cid = 0

\* The gradeScore values of the flips of seq that are kept and written by
\* author a, in the order of seq.
ScoresOf(a, seq) ==
  LET ks == SelectSeq(seq, LAMBDA fl : ~FilteredOut(fl) /\ Lower(fl.author) = a)
  IN [i \in 1..Len(ks) |-> IF ks[i].gradeScore.k = "num" THEN ks[i].gradeScore.v
                                                           ELSE 0]

\* ---- Claims about the wrongWords scans ---------------------------------

\* C4: a failing detail fetch does not end the scan: every identifier is
\* fetched in turn, each failed fetch prints exactly one error line, and at
\* every point each author's count is the number of successfully fetched
\* flips of that author with wrongWords true.
C4_ScanToleratesFailedFetches ==
  script \in {"find", "historic"} =>
    /\ errorLines = FailedFetches
    /\ DictKeys(counts) \subseteq Addrs
    /\ \A a \in Addrs :
         DictGet(counts, a, 0) = WrongFetched(a)
    /\ (pc = "scan" => idx = Len(fetched) + 1)
    /\ (pc \in {"done", "hist_loop"} => Len(fetched) = Len(cids))

\* Three flips were scanned, the second fetch failed, the third counted.
C4_Witness ==
  /\ script \in {"find", "historic"}
  /\ pc \in {"done", "hist_loop"}
  /\ Len(fetched) = 3
  /\ fetched[1].kind = "ok"
  /\ fetched[2].kind = "fail"
  /\ fetched[3].kind = "ok" /\ fetched[3].wrong /\ fetched[3].author = "A"
  /\ errorLines = 1
  /\ DictGet(counts, "a", 0) >= 1

\* C9: if a list request was answered by a failure (network failure, HTTP
\* error status, API error envelope), no report of that epoch and no master
\* summary is emitted, and the leaderboard writes no file; a run whose list
\* requests all succeeded emits its summary when it ends.
C9_FailedScanEmitsNothing ==
  /\ \A e \in listFailed :
       /\ \A i \in 1..Len(reports) : reports[i].epoch # e
       /\ ~master.written
       /\ ~written
  /\ (pc = "done" /\ listFailed = {}) =>
       IF script = "find" THEN Len(reports) = 1 ELSE master.written

\* ---- Claims about the leaderboard --------------------------------------

\* C5: at every point of the main loop, the kept flips are exactly the
\* flips seen that no filter removes, and for every author the aggregate's
\* count is the number of kept flips of that author and its total is the
\* (float) sum of their gradeScore values; an author without kept flips has
\* no aggregate.
C5_AggregatesMatchKeptFlips ==
  script = "leaderboard" =>
    LET exp == SelectSeq(seen, LAMBDA fl : ~FilteredOut(fl))
    IN /\ total_seen = Len(seen)
       /\ total_kept = Len(flips_min)
       /\ Len(flips_min) = Len(exp)
       /\ \A i \in 1..Len(exp) :
            /\ flips_min[i].cid = exp[i].cid
            /\ flips_min[i].author = Lower(exp[i].author)
       /\ \A a \in Addrs :
            LET ks == SelectSeq(flips_min, LAMBDA k : k.author = a)
            IN IF ks = <<>> THEN ~DictHas(sums, a)
               ELSE /\ DictHas(sums, a)
                    /\ DictGet(sums, a, SumsDefault).count = Len(ks)
                    /\ DictGet(sums, a, SumsDefault).total =
                         FloatSum([i \in 1..Len(ks) |-> ks[i].gradeScore])
       /\ DictKeys(sums) \subseteq Addrs

\* Three flips were seen: two of one author were kept, one was filtered out.
C5_Witness ==
  /\ script = "leaderboard"
  /\ Len(seen) = 3
  /\ Len(flips_min) = 2
  /\ DictHas(sums, "a")
  /\ DictGet(sums, "a", SumsDefault).count = 2
  /\ DictGet(sums, "a", SumsDefault).total = 2

\* The addresses named by a row with reason "WrongWords" or wrongWords true.
NamedBad ==
  {Lower(r.address) :
     r \in {q \in badRows : q.reason = "WrongWords" \/ q.wrongWords = TRUE}} \ {""}

\* C6: no flip whose lowercase author is named by a row of the bad-authors
\* list with reason "WrongWords" or wrongWords true is kept or aggregated or
\* reported, and a flip is excluded as a bad author's only if such a row
\* names its author.
C6_BadAuthorsExcluded ==
  script = "leaderboard" =>
    /\ bad_authors = NamedBad
    /\ \A i \in 1..Len(flips_min) : flips_min[i].author \notin NamedBad
    /\ DictKeys(sums) \cap NamedBad = {}
    /\ \A i \in 1..Len(flip_rows) : flip_rows[i].author \notin NamedBad
    /\ \A i \in 1..Len(id_sorted) : id_sorted[i].address \notin NamedBad
    /\ \A i \in 1..Len(seen) :
         LET fl == seen[i]
         IN (/\ Lower(fl.author) \notin NamedBad
             /\ fl.author # ""
             /\ ~(allowed_status.on /\ fl.status \notin allowed_status.names)
             /\ (include_zero \/ (fl.gradeScore.k = "num" /\ fl.gradeScore.v > 0))
             /\ fl.cid # 0)
            => \E j \in 1..Len(flips_min) : flips_min[j].cid = fl.cid

\* A row named author "b" by its wrongWords flag alone: a flip of "b" was
\* left out and a flip of "a" was kept and reported.
C6_Witness ==
  /\ script = "leaderboard"
  /\ pc = "lb_done"
  /\ \E r \in badRows : r.reason # "WrongWords" /\ r.wrongWords /\ r.address = "b"
  /\ \E i \in 1..Len(seen) : seen[i].author = "b" /\ seen[i].gradeScore = Num(1)
  /\ \E i \in 1..Len(flip_rows) : flip_rows[i].author = "a"

\* The gradeScore values of the kept flips of author a.
KeptScores(a) ==
  {flips_min[i].gradeScore : i \in {j \in 1..Len(flips_min) : flips_min[j].author = a}}

\* The largest element of a non-empty set of scores.
MaxOf(S) == CHOOSE x \in S : \A y \in S : y <= x

\* C12: in the identity leaderboard written at the end of a run, every
\* author with at least one kept flip has a row, and in every row
\* maxFlipGradeScore is the largest gradeScore among the author's kept flips
\* and avgGradeScore is totalGradeScore divided by flipCount, whatever the
\* filter settings (--include-zero keeps zero and negative scores).
C12_MaxAndAvgOfKeptFlips ==
  (script = "leaderboard" /\ pc = "lb_done") =>
    /\ \A a \in Addrs :
         KeptScores(a) # {} => \E i \in 1..Len(id_sorted) : id_sorted[i].address = a
    /\ \A i \in 1..Len(id_sorted) :
         LET row == id_sorted[i]
         IN /\ KeptScores(row.address) # {}
            /\ row.maxFlipGradeScore = MaxOf(KeptScores(row.address))
            /\ row.avgGradeScore = <<row.totalGradeScore, row.flipCount>>

\* ---- Claims about both ---------------------------------------------------

\* C7 as stated: for every reordering of the same flip records the final
\* aggregates are identical (the wrongWords counts; total, count and max).
C7_OrderIndependent ==
  /\ (script \in {"find", "historic"} /\ pc \in {"done", "hist_loop"}) =>
       \A f \in Perms(Len(fetched)) :
         SameMap(FoldCounts(script, <<>>, Permute(fetched, f)), counts)
  /\ (script = "leaderboard" /\ pc = "lb_done") =>
       \A f \in Perms(Len(seen)) :
         LET p == FoldSums(<<>>, Permute(seen, f))
         IN /\ DictKeys(p) = DictKeys(sums)
            /\ \A a \in DictKeys(sums) :
                 DictGet(p, a, SumsDefault) = DictGet(sums, a, SumsDefault)

\* C7, amended: for every reordering of the same flip records the final
\* wrongWords counts are identical, and so are the authors, counts and max
\* values of the leaderboard; an author's total is identical whenever no
\* addition of the author's scores has to round in either order.
C7_OrderIndependentUpToRounding ==
  /\ (script \in {"find", "historic"} /\ pc \in {"done", "hist_loop"}) =>
       \A f \in Perms(Len(fetched)) :
         SameMap(FoldCounts(script, <<>>, Permute(fetched, f)), counts)
  /\ (script = "leaderboard" /\ pc = "lb_done") =>
       \A f \in Perms(Len(seen)) :
         LET p == FoldSums(<<>>, Permute(seen, f))
         IN /\ DictKeys(p) = DictKeys(sums)
            /\ \A a \in DictKeys(sums) :
                 LET x == DictGet(p, a, SumsDefault)
                     y == DictGet(sums, a, SumsDefault)
                 IN /\ x.count = y.count
                    /\ x.max = y.max
                    /\ \/ x.total = y.total
                       \/ ~NoRounding(ScoresOf(a, seen))
                       \/ ~NoRounding(ScoresOf(a, Permute(seen, f)))

\* A leaderboard run over three kept flips of one author whose sum rounds in
\* the order they arrived.
C7_Witness ==
  /\ script = "leaderboard"
  /\ pc = "lb_done"
  /\ Len(flips_min) = 3
  /\ DictGet(sums, "a", SumsDefault).count = 3
  /\ DictGet(sums, "a", SumsDefault).max = BigScore
  /\ ~NoRounding(ScoresOf("a", seen))

\* The leaderboards are in the strict order of their sort keys, descending.
LeaderboardsSorted ==
  (script = "leaderboard" /\ pc = "lb_done") =>
    /\ Len(flip_rows) = Len(flips_min)
    /\ {flip_rows[i].cid : i \in 1..Len(flip_rows)} =
         {flips_min[i].cid : i \in 1..Len(flips_min)}
    /\ \A i \in 1..Len(flip_rows) : flip_rows[i].rank = i
    /\ \A i, j \in 1..Len(flip_rows) :
         i < j =>
           \/ flip_rows[i].grade_score > flip_rows[j].grade_score
           \/ /\ flip_rows[i].grade_score = flip_rows[j].grade_score
              /\ flip_rows[i].cid > flip_rows[j].cid
    /\ Len(id_sorted) = Len(sums)
    /\ {id_sorted[i].address : i \in 1..Len(id_sorted)} = DictKeys(sums)
    /\ \A i \in 1..Len(id_sorted) :
         LET agg == DictGet(sums, id_sorted[i].address, SumsDefault)
         IN /\ id_sorted[i].totalGradeScore = agg.total
            /\ id_sorted[i].flipCount = agg.count
    /\ \A i, j \in 1..Len(id_sorted) :
         i < j =>
           \/ id_sorted[i].totalGradeScore > id_sorted[j].totalGradeScore
           \/ /\ id_sorted[i].totalGradeScore = id_sorted[j].totalGradeScore
              /\ \/ id_sorted[i].flipCount > id_sorted[j].flipCount
                 \/ /\ id_sorted[i].flipCount = id_sorted[j].flipCount
                    /\ StrOrd(id_sorted[i].address) > StrOrd(id_sorted[j].address)

\* C8 as stated: the row order of every report is a function of the final
\* aggregates alone: the leaderboards are in the strict order of their keys,
\* and the rows of a wrongWords summary are the same for every order in
\* which the flips of the epoch could have been fetched.
C8_RowOrderFromAggregatesAlone ==
  /\ LeaderboardsSorted
  /\ (script \in {"find", "historic"} /\ pc \in {"done", "hist_loop"}
      /\ reports # <<>>) =>
       \A f \in Perms(Len(fetched)) :
         SortCounts(FoldCounts(script, <<>>, Permute(fetched, f)))
           = reports[Len(reports)].rows

\* C8, amended: the leaderboards are ordered by their aggregate value
\* descending with ties broken by the secondary keys (cid; flipCount, then
\* address); a wrongWords summary holds the items of counts ordered by count
\* descending, and rows with equal counts keep the order in which their
\* authors entered counts.
C8_RowsSorted ==
  /\ LeaderboardsSorted
  /\ script \in {"find", "historic"} =>
       \A n \in 1..Len(reports) :
         LET rows == reports[n].rows
             items == reports[n].items
         IN /\ Len(rows) = Len(items)
            /\ {rows[i] : i \in 1..Len(rows)} = {items[i] : i \in 1..Len(items)}
            /\ \A i, j \in 1..Len(rows) :
                 i < j =>
                   \/ rows[i][2] > rows[j][2]
                   \/ /\ rows[i][2] = rows[j][2]
                      /\ DictIdx(items, rows[i][1]) < DictIdx(items, rows[j][1])

\* A flip leaderboard with two flips tied on gradeScore and an identity
\* leaderboard with two authors.
C8_Witness ==
  /\ script = "leaderboard"
  /\ pc = "lb_done"
  /\ Len(flip_rows) = 3
  /\ flip_rows[1].grade_score = flip_rows[2].grade_score
  /\ Len(id_sorted) = 2

====
